---- MODULE Spec2Model ----
(***************************************************************************)
(* Model of blockservice/blockservice.go: the block service that serves    *)
(* blocks from a local blockstore and falls back to an exchange, its write *)
(* path, its streaming batch read and its lazily initialised Session.      *)
(*                                                                         *)
(* A block is identified with its cid (blocks are content addressed).      *)
(* Every call made to a collaborator (blockstore, exchange, provider) is   *)
(* recorded as an event in the log of the call that made it.               *)
(***************************************************************************)
EXTENDS Integers, Sequences, FiniteSets, TLC

\* ------------------------------------------------------------- bounds
NumCids == 4       \* cids 1..NumCids; the last one uses a disallowed hash
MaxKs == 3         \* longest cid list handed to GetBlocks
MaxBatch == 2      \* longest block list handed to AddBlocks
NumProcs == 2      \* goroutines sharing the Session in SessionSpec
MaxFairKs == 2     \* longest cid list handed to GetBlocks in FairTaskSpec

\* ------------------------------------------------------------- values
Cids == 1..NumCids
NoBlock == 0
Procs == 1..NumProcs
Solo == {1}

\* verifcid: the multihash function of a cid, and the default allowlist
MhType(c) == IF c = NumCids THEN "md5" ELSE "sha2-256"
DefaultAllowlist == {"sha2-256"}

\* verifcid.ValidateCid(allowlist, c) = nil
ValidateCid(allowlist, c) == MhType(c) \in allowlist

RECURSIVE SeqsUpTo(_, _)
SeqsUpTo(S, n) ==
    IF n = 0 THEN {<<>>}
    ELSE LET shorter == SeqsUpTo(S, n - 1)
         IN  shorter \cup {Append(s, x) : s \in {t \in shorter : Len(t) = n - 1}, x \in S}

\* The model treats the allowed cids alike, so the lists handed to GetBlocks and
\* AddBlocks are taken up to renaming: the allowed cids of a list are numbered in the order of
\* their first occurrence. The blockstore is any set of blocks.
Canonical(l) ==
    \A i \in 1..Len(l) :
        (l[i] # NumCids /\ l[i] > 1) => \E j \in 1..(i - 1) : l[j] = l[i] - 1
KsInputs == {l \in SeqsUpTo(Cids, MaxKs) : Canonical(l)}
BatchInputs == {l \in SeqsUpTo(Cids, MaxBatch) : Canonical(l)}

\* one call made to a collaborator: which one, its argument, and its result:
\* "ok", "NotFound" (a blockstore lookup of an absent block), "err", and for
\* blockstore.Has "true", "false" or "err"
Ev(op, arg, res) == [op |-> op, arg |-> arg, res |-> res]
Res(failed) == IF failed THEN "err" ELSE "ok"
\* the result of blockstore.Has(c) on the blockstore st: "true", "false" or "err"
HasRes(c, st, failed) == IF failed THEN "err" ELSE IF c \in st THEN "true" ELSE "false"

RECURSIVE SeqToSet(_)
SeqToSet(s) == IF s = <<>> THEN {} ELSE {Head(s)} \cup SeqToSet(Tail(s))

RECURSIVE SelectOp(_, _)
\* the events of a log made to the collaborator operations in ops
SelectOp(l, ops) ==
    IF l = <<>> THEN <<>>
    ELSE IF Head(l).op \in ops THEN <<Head(l)>> \o SelectOp(Tail(l), ops)
         ELSE SelectOp(Tail(l), ops)

Count(l, op) == Len(SelectOp(l, {op}))

StoreOps == {"Has", "Get", "Put", "PutMany", "DeleteBlock"}
ExchangeOps == {"GetBlock", "GetBlocks", "NotifyNewBlocks", "NewSession"}
ProviderOps == {"Provide"}

VARIABLES
    exchange,     \* blockService.exchange: "nil", "plain" or "session" (a SessionExchange)
    provider,     \* blockService.provider is set
    checkFirst,   \* blockService.checkFirst
    store,        \* the cids of the blocks held by the blockstore
    once,         \* Session.createSession: "new", "running" or "done"
    ses,          \* Session.ses: "nil", "exchange" (the raw exchange) or "session"
    sesctx,       \* Session.sesctx: "ctx" or "nil"
    nsess,        \* calls made to SessionExchange.NewSession for the Session
    pc,           \* where each caller is
    call,         \* the call each caller is making or made last
    log,          \* the collaborator calls of that call, in order
    ret,          \* what the call returned
    fetch,        \* the call's local variable fetch: "unset", "nil", "exchange", "session"
    ks,           \* getBlocks: the cid list after validation
    idx,          \* getBlocks: position of the local scan in ks
    misses,       \* getBlocks: the miss list
    pending,      \* getBlocks: cids the exchange may still deliver on rblocks
    cur,          \* getBlocks: the block about to be sent on out
    out,          \* getBlocks: the blocks sent on the output channel, in order
    closes,       \* getBlocks: how many times out was closed
    cancelled     \* getBlocks: ctx.Done() is closed

cfgvars == <<exchange, provider, checkFirst>>
sesvars == <<once, ses, sesctx, nsess>>
taskvars == <<ks, idx, misses, pending, cur, out, closes, cancelled>>
vars == <<exchange, provider, checkFirst, store, once, ses, sesctx, nsess,
          pc, call, log, ret, fetch, ks, idx, misses, pending, cur, out,
          closes, cancelled>>

NoCall == [op |-> "none", via |-> "none", arg |-> <<>>]
NoRet == [err |-> "none", blk |-> NoBlock]
Result(err, blk) == [err |-> err, blk |-> blk]

\* New(bs, exchange, opts...) followed by NewSession(ctx, service)
Init ==
    /\ exchange \in {"nil", "plain", "session"}
    /\ provider \in BOOLEAN
    /\ checkFirst \in BOOLEAN
    /\ store \in SUBSET Cids
    /\ once = "new"
    /\ ses = "nil"
    /\ sesctx = "ctx"
    /\ nsess = 0
    /\ pc = [p \in Procs |-> "idle"]
    /\ call = [p \in Procs |-> NoCall]
    /\ log = [p \in Procs |-> <<>>]
    /\ ret = [p \in Procs |-> NoRet]
    /\ fetch = [p \in Procs |-> "unset"]
    /\ ks = [p \in Procs |-> <<>>]
    /\ idx = [p \in Procs |-> 0]
    /\ misses = [p \in Procs |-> <<>>]
    /\ pending = [p \in Procs |-> {}]
    /\ cur = [p \in Procs |-> NoBlock]
    /\ out = [p \in Procs |-> <<>>]
    /\ closes = [p \in Procs |-> 0]
    /\ cancelled = [p \in Procs |-> FALSE]

\* a caller that is not inside a call can make the next one
Free(p) == pc[p] \in {"idle", "done"}

\* the state of a caller at the start of a call
Begin(p, op, via, arg) ==
    /\ call' = [call EXCEPT ![p] = [op |-> op, via |-> via, arg |-> arg]]
    /\ fetch' = [fetch EXCEPT ![p] = "unset"]
    /\ idx' = [idx EXCEPT ![p] = 0]
    /\ misses' = [misses EXCEPT ![p] = <<>>]
    /\ pending' = [pending EXCEPT ![p] = {}]
    /\ cur' = [cur EXCEPT ![p] = NoBlock]
    /\ out' = [out EXCEPT ![p] = <<>>]
    /\ closes' = [closes EXCEPT ![p] = 0]
    /\ cancelled' = [cancelled EXCEPT ![p] = FALSE]

\* ------------------------------------------------------------- write path

\* AddBlock with the result of Has ignored: the block is put although present
AddBlockRunNoSkip(o, st, hasErr, putErr, notifyErr, provideErr) ==
    LET lHas == IF checkFirst THEN <<Ev("Has", <<o>>, HasRes(o, st, hasErr))>> ELSE <<>>
        lPut == lHas \o <<Ev("Put", <<o>>, Res(putErr))>>
        lNot == lPut \o (IF exchange # "nil"
                         THEN <<Ev("NotifyNewBlocks", <<o>>, Res(notifyErr))>> ELSE <<>>)
        lPro == lNot \o (IF provider
                         THEN <<Ev("Provide", <<o>>, Res(provideErr))>> ELSE <<>>)
    IN  IF ~ValidateCid(DefaultAllowlist, o)
        THEN [err |-> "ErrRejected", log |-> <<>>, store |-> st]
        ELSE IF checkFirst /\ hasErr
        THEN [err |-> "StoreErr", log |-> lHas, store |-> st]
        ELSE IF putErr
        THEN [err |-> "StoreErr", log |-> lPut, store |-> st]
        ELSE [err |-> "nil", log |-> lPro, store |-> st \cup {o}]

\* blockService.AddBlock: the outcome of one call for block o on blockstore st,
\* the flags say which collaborator calls fail
AddBlockRun(o, st, hasErr, putErr, notifyErr, provideErr) ==
    LET lHas == IF checkFirst THEN <<Ev("Has", <<o>>, HasRes(o, st, hasErr))>> ELSE <<>>
        lPut == lHas \o <<Ev("Put", <<o>>, Res(putErr))>>
        lNot == lPut \o (IF exchange # "nil"
                         THEN <<Ev("NotifyNewBlocks", <<o>>, Res(notifyErr))>> ELSE <<>>)
        lPro == lNot \o (IF provider
                         THEN <<Ev("Provide", <<o>>, Res(provideErr))>> ELSE <<>>)
    IN  IF ~ValidateCid(DefaultAllowlist, o)
        THEN [err |-> "ErrRejected", log |-> <<>>, store |-> st]
        ELSE IF checkFirst /\ hasErr
        THEN [err |-> "StoreErr", log |-> lHas, store |-> st]
        ELSE IF checkFirst /\ o \in st
        THEN [err |-> "nil", log |-> lHas, store |-> st]
        ELSE IF putErr
        THEN [err |-> "StoreErr", log |-> lPut, store |-> st]
        ELSE [err |-> "nil", log |-> lPro, store |-> st \cup {o}]

AddBlock(p, o) ==
    /\ Free(p)
    /\ \E hasErr, putErr, notifyErr, provideErr \in BOOLEAN :
         LET r == AddBlockRun(o, store, hasErr, putErr, notifyErr, provideErr)
         IN  /\ store' = r.store
             /\ log' = [log EXCEPT ![p] = r.log]
             /\ ret' = [ret EXCEPT ![p] = Result(r.err, NoBlock)]
    /\ Begin(p, "AddBlock", "direct", <<o>>)
    /\ ks' = [ks EXCEPT ![p] = <<>>]
    /\ pc' = [pc EXCEPT ![p] = "done"]
    /\ UNCHANGED <<cfgvars, sesvars>>

\* blockService.AddBlocks, the validation loop: some block of bs is rejected
BatchRejectedFirstOnly(bs) ==
    bs # <<>> /\ ~ValidateCid(DefaultAllowlist, bs[1])

BatchRejected(bs) ==
    \E i \in 1..Len(bs) : ~ValidateCid(DefaultAllowlist, bs[i])

\* AddBlocks leaving out the blocks the blockstore holds even with checkFirst unset
AddBlocksRunAlwaysFilter(bs, st, hasFailAt, putErr, notifyErr, provideFail) ==
    LET toput == SelectSeq(bs, LAMBDA b : b \notin st)
        lPut == <<Ev("PutMany", toput, Res(putErr))>>
        lNot == lPut \o (IF exchange # "nil"
                         THEN <<Ev("NotifyNewBlocks", toput, Res(notifyErr))>> ELSE <<>>)
        lPro == lNot \o (IF provider
                         THEN [i \in 1..Len(toput) |->
                                  Ev("Provide", <<toput[i]>>, Res(i \in provideFail))]
                         ELSE <<>>)
    IN  IF BatchRejected(bs)
        THEN [err |-> "ErrRejected", log |-> <<>>, store |-> st]
        ELSE IF toput = <<>>
        THEN [err |-> "nil", log |-> <<>>, store |-> st]
        ELSE IF putErr
        THEN [err |-> "StoreErr", log |-> lPut, store |-> st]
        ELSE [err |-> "nil", log |-> lPro, store |-> st \cup SeqToSet(toput)]

\* AddBlocks giving up the advertisements at the first Provide that fails
AddBlocksRunProvideStops(bs, st, hasFailAt, putErr, notifyErr, provideFail) ==
    LET nHas == IF hasFailAt \in 1..Len(bs) THEN hasFailAt ELSE Len(bs)
        lHas == IF checkFirst
                THEN [i \in 1..nHas |-> Ev("Has", <<bs[i]>>, HasRes(bs[i], st, i = hasFailAt))]
                ELSE <<>>
        toput == IF checkFirst THEN SelectSeq(bs, LAMBDA b : b \notin st) ELSE bs
        failing == provideFail \cap (1..Len(toput))
        nPro == IF failing = {} THEN Len(toput)
                ELSE CHOOSE i \in failing : \A j \in failing : i <= j
        lPut == lHas \o <<Ev("PutMany", toput, Res(putErr))>>
        lNot == lPut \o (IF exchange # "nil"
                         THEN <<Ev("NotifyNewBlocks", toput, Res(notifyErr))>> ELSE <<>>)
        lPro == lNot \o (IF provider
                         THEN [i \in 1..nPro |->
                                  Ev("Provide", <<toput[i]>>, Res(i \in provideFail))]
                         ELSE <<>>)
    IN  IF BatchRejected(bs)
        THEN [err |-> "ErrRejected", log |-> <<>>, store |-> st]
        ELSE IF checkFirst /\ hasFailAt \in 1..Len(bs)
        THEN [err |-> "StoreErr", log |-> lHas, store |-> st]
        ELSE IF toput = <<>>
        THEN [err |-> "nil", log |-> lHas, store |-> st]
        ELSE IF putErr
        THEN [err |-> "StoreErr", log |-> lPut, store |-> st]
        ELSE [err |-> "nil", log |-> lPro, store |-> st \cup SeqToSet(toput)]

\* blockService.AddBlocks: the outcome of one call for the blocks bs on blockstore st;
\* hasFailAt is the position whose Has fails (0: none), provideFail the positions of
\* toput whose Provide fails
AddBlocksRun(bs, st, hasFailAt, putErr, notifyErr, provideFail) ==
    LET nHas == IF hasFailAt \in 1..Len(bs) THEN hasFailAt ELSE Len(bs)
        lHas == IF checkFirst
                THEN [i \in 1..nHas |-> Ev("Has", <<bs[i]>>, HasRes(bs[i], st, i = hasFailAt))]
                ELSE <<>>
        toput == IF checkFirst THEN SelectSeq(bs, LAMBDA b : b \notin st) ELSE bs
        lPut == lHas \o <<Ev("PutMany", toput, Res(putErr))>>
        lNot == lPut \o (IF exchange # "nil"
                         THEN <<Ev("NotifyNewBlocks", toput, Res(notifyErr))>> ELSE <<>>)
        lPro == lNot \o (IF provider
                         THEN [i \in 1..Len(toput) |->
                                  Ev("Provide", <<toput[i]>>, Res(i \in provideFail))]
                         ELSE <<>>)
    IN  IF BatchRejected(bs)
        THEN [err |-> "ErrRejected", log |-> <<>>, store |-> st]
        ELSE IF checkFirst /\ hasFailAt \in 1..Len(bs)
        THEN [err |-> "StoreErr", log |-> lHas, store |-> st]
        ELSE IF toput = <<>>
        THEN [err |-> "nil", log |-> lHas, store |-> st]
        ELSE IF putErr
        THEN [err |-> "StoreErr", log |-> lPut, store |-> st]
        ELSE [err |-> "nil", log |-> lPro, store |-> st \cup SeqToSet(toput)]

AddBlocks(p, bs) ==
    /\ Free(p)
    /\ \E hasFailAt \in 0..Len(bs), putErr, notifyErr \in BOOLEAN,
          provideFail \in SUBSET (1..Len(bs)) :
         LET r == AddBlocksRun(bs, store, hasFailAt, putErr, notifyErr, provideFail)
         IN  /\ store' = r.store
             /\ log' = [log EXCEPT ![p] = r.log]
             /\ ret' = [ret EXCEPT ![p] = Result(r.err, NoBlock)]
    /\ Begin(p, "AddBlocks", "direct", bs)
    /\ ks' = [ks EXCEPT ![p] = <<>>]
    /\ pc' = [pc EXCEPT ![p] = "done"]
    /\ UNCHANGED <<cfgvars, sesvars>>

\* DeleteBlock validating the cid as the other operations do
DeleteBlockValidated(p, c) ==
    /\ Free(p)
    /\ \E delErr \in BOOLEAN :
         IF ~ValidateCid(DefaultAllowlist, c)
         THEN /\ store' = store
              /\ log' = [log EXCEPT ![p] = <<>>]
              /\ ret' = [ret EXCEPT ![p] = Result("ErrRejected", NoBlock)]
         ELSE /\ store' = IF delErr THEN store ELSE store \ {c}
              /\ log' = [log EXCEPT ![p] = <<Ev("DeleteBlock", <<c>>, Res(delErr))>>]
              /\ ret' = [ret EXCEPT ![p] =
                            Result(IF delErr THEN "StoreErr" ELSE "nil", NoBlock)]
    /\ Begin(p, "DeleteBlock", "direct", <<c>>)
    /\ ks' = [ks EXCEPT ![p] = <<>>]
    /\ pc' = [pc EXCEPT ![p] = "done"]
    /\ UNCHANGED <<cfgvars, sesvars>>

\* blockService.DeleteBlock
DeleteBlock(p, c) ==
    /\ Free(p)
    /\ \E delErr \in BOOLEAN :
         /\ store' = IF delErr THEN store ELSE store \ {c}
         /\ log' = [log EXCEPT ![p] = <<Ev("DeleteBlock", <<c>>, Res(delErr))>>]
         /\ ret' = [ret EXCEPT ![p] =
                       Result(IF delErr THEN "StoreErr" ELSE "nil", NoBlock)]
    /\ Begin(p, "DeleteBlock", "direct", <<c>>)
    /\ ks' = [ks EXCEPT ![p] = <<>>]
    /\ pc' = [pc EXCEPT ![p] = "done"]
    /\ UNCHANGED <<cfgvars, sesvars>>

\* ------------------------------------------------------------- fetchFactory

\* a step of p that only moves p to the position to
Goto(p, to) == pc' = [pc EXCEPT ![p] = to]

\* blockService.getExchangeFetcher: the fetchFactory of a direct call
GetExchangeFetcher(p) ==
    /\ pc[p] = "factory"
    /\ call[p].via = "direct"
    /\ fetch' = [fetch EXCEPT ![p] = IF exchange = "nil" THEN "nil" ELSE "exchange"]
    /\ Goto(p, "fetch")
    /\ UNCHANGED <<cfgvars, sesvars, store, call, log, ret, taskvars>>

\* grabSession with a caller that arrives while the function runs not waiting
OnceDoNoWait(p) ==
    /\ pc[p] = "factory"
    /\ call[p].via = "session"
    /\ IF once = "new"
       THEN /\ once' = "running"
            /\ Goto(p, "init")
       ELSE /\ once' = once
            /\ Goto(p, "grab_ret")
    /\ UNCHANGED <<cfgvars, ses, sesctx, nsess, store, call, log, ret, fetch, taskvars>>

\* a Once that runs the function again for a caller arriving after it completed
OnceDoRerun(p) ==
    /\ pc[p] = "factory"
    /\ call[p].via = "session"
    /\ once # "running"
    /\ once' = "running"
    /\ Goto(p, "init")
    /\ UNCHANGED <<cfgvars, ses, sesctx, nsess, store, call, log, ret, fetch, taskvars>>

\* Session.grabSession, entering s.createSession.Do: the first caller runs the
\* function, a caller arriving while it runs waits, a later one returns at once
OnceDo(p) ==
    /\ pc[p] = "factory"
    /\ call[p].via = "session"
    /\ once # "running"
    /\ IF once = "new"
       THEN /\ once' = "running"
            /\ Goto(p, "init")
       ELSE /\ once' = once
            /\ Goto(p, "grab_ret")
    /\ UNCHANGED <<cfgvars, ses, sesctx, nsess, store, call, log, ret, fetch, taskvars>>

\* the function run once: ex := s.bs.Exchange(); s.ses = ex
InitExchange(p) ==
    /\ pc[p] = "init"
    /\ IF exchange = "nil"
       THEN /\ ses' = ses
            /\ Goto(p, "init_defer")
       ELSE /\ ses' = "exchange"
            /\ Goto(p, IF exchange = "session" THEN "init_new" ELSE "init_defer")
    /\ UNCHANGED <<cfgvars, once, sesctx, nsess, store, call, log, ret, fetch, taskvars>>

\* s.ses = sesEx.NewSession(s.sesctx)
InitNewSession(p) ==
    /\ pc[p] = "init_new"
    /\ ses' = "session"
    /\ nsess' = nsess + 1
    /\ log' = [log EXCEPT ![p] = Append(@, Ev("NewSession", <<>>, "ok"))]
    /\ Goto(p, "init_defer")
    /\ UNCHANGED <<cfgvars, once, sesctx, store, call, ret, fetch, taskvars>>

\* the initialisation ending with the Session still holding sesctx
InitDeferKeepsCtx(p) ==
    /\ pc[p] = "init_defer"
    /\ sesctx' = sesctx
    /\ once' = "done"
    /\ Goto(p, "grab_ret")
    /\ UNCHANGED <<cfgvars, ses, nsess, store, call, log, ret, fetch, taskvars>>

\* the deferred s.sesctx = nil, then Do marks the Once done
InitDefer(p) ==
    /\ pc[p] = "init_defer"
    /\ sesctx' = "nil"
    /\ once' = "done"
    /\ Goto(p, "grab_ret")
    /\ UNCHANGED <<cfgvars, ses, nsess, store, call, log, ret, fetch, taskvars>>

\* return s.ses
GrabReturn(p) ==
    /\ pc[p] = "grab_ret"
    /\ fetch' = [fetch EXCEPT ![p] = ses]
    /\ Goto(p, "fetch")
    /\ UNCHANGED <<cfgvars, sesvars, store, call, log, ret, taskvars>>

FetchFactory(p) ==
    \/ GetExchangeFetcher(p)
    \/ OnceDo(p)
    \/ InitExchange(p)
    \/ InitNewSession(p)
    \/ InitDefer(p)
    \/ GrabReturn(p)

\* ------------------------------------------------------------- single read

\* getBlock asking for the fetcher after a lookup that found the block
GetBlockLocalAlwaysFetch(c, st, getErr) ==
    IF ~ValidateCid(DefaultAllowlist, c)
    THEN [next |-> "done", ret |-> Result("ErrRejected", NoBlock), log |-> <<>>]
    ELSE IF getErr
    THEN [next |-> "done", ret |-> Result("StoreErr", NoBlock),
          log |-> <<Ev("Get", <<c>>, "err")>>]
    ELSE IF c \in st
    THEN [next |-> "factory", ret |-> Result("nil", c), log |-> <<Ev("Get", <<c>>, "ok")>>]
    ELSE [next |-> "factory", ret |-> Result("NotFound", NoBlock),
          log |-> <<Ev("Get", <<c>>, "NotFound")>>]

\* getBlock falling back to the exchange after any failed lookup
GetBlockLocalAnyMiss(c, st, getErr) ==
    IF ~ValidateCid(DefaultAllowlist, c)
    THEN [next |-> "done", ret |-> Result("ErrRejected", NoBlock), log |-> <<>>]
    ELSE IF getErr
    THEN [next |-> "factory", ret |-> Result("StoreErr", NoBlock),
          log |-> <<Ev("Get", <<c>>, "err")>>]
    ELSE IF c \in st
    THEN [next |-> "done", ret |-> Result("nil", c), log |-> <<Ev("Get", <<c>>, "ok")>>]
    ELSE [next |-> "factory", ret |-> Result("NotFound", NoBlock),
          log |-> <<Ev("Get", <<c>>, "NotFound")>>]

\* getBlock up to the blockstore lookup: what it returns, or that it goes on to
\* fetchFactory (next = "factory"); getErr says the lookup fails with an error
\* other than not-found
GetBlockLocal(c, st, getErr) ==
    IF ~ValidateCid(DefaultAllowlist, c)
    THEN [next |-> "done", ret |-> Result("ErrRejected", NoBlock), log |-> <<>>]
    ELSE IF getErr
    THEN [next |-> "done", ret |-> Result("StoreErr", NoBlock),
          log |-> <<Ev("Get", <<c>>, "err")>>]
    ELSE IF c \in st
    THEN [next |-> "done", ret |-> Result("nil", c), log |-> <<Ev("Get", <<c>>, "ok")>>]
    ELSE [next |-> "factory", ret |-> Result("NotFound", NoBlock),
          log |-> <<Ev("Get", <<c>>, "NotFound")>>]

\* blockService.GetBlock (via = "direct") and Session.GetBlock (via = "session")
GetBlock(p, c, via) ==
    /\ Free(p)
    /\ \E getErr \in BOOLEAN :
         LET r == GetBlockLocal(c, store, getErr)
         IN  /\ log' = [log EXCEPT ![p] = r.log]
             /\ ret' = [ret EXCEPT ![p] = r.ret]
             /\ Goto(p, r.next)
    /\ Begin(p, "GetBlock", via, <<c>>)
    /\ ks' = [ks EXCEPT ![p] = <<>>]
    /\ UNCHANGED <<cfgvars, sesvars, store>>

\* getBlock returning the fetched block without telling the exchange
GetBlockRemoteNoNotify(c, f, st, err, fetchErr, putErr, notifyErr, provideErr) ==
    LET lGet == <<Ev("GetBlock", <<c>>, Res(fetchErr))>>
        lPut == lGet \o <<Ev("Put", <<c>>, Res(putErr))>>
        lPro == lPut \o (IF provider
                         THEN <<Ev("Provide", <<c>>, Res(provideErr))>> ELSE <<>>)
    IN  IF f = "nil"
        THEN [ret |-> Result(err, NoBlock), log |-> <<>>, store |-> st]
        ELSE IF fetchErr
        THEN [ret |-> Result("FetchErr", NoBlock), log |-> lGet, store |-> st]
        ELSE IF putErr
        THEN [ret |-> Result("StoreErr", NoBlock), log |-> lPut, store |-> st]
        ELSE IF provider /\ provideErr
        THEN [ret |-> Result("ProvideErr", NoBlock), log |-> lPro, store |-> st \cup {c}]
        ELSE [ret |-> Result("nil", c), log |-> lPro, store |-> st \cup {c}]

\* getBlock after fetchFactory returned f: err is the not-found error of the lookup
GetBlockRemote(c, f, st, err, fetchErr, putErr, notifyErr, provideErr) ==
    LET lGet == <<Ev("GetBlock", <<c>>, Res(fetchErr))>>
        lPut == lGet \o <<Ev("Put", <<c>>, Res(putErr))>>
        lNot == lPut \o (IF exchange # "nil"
                         THEN <<Ev("NotifyNewBlocks", <<c>>, Res(notifyErr))>> ELSE <<>>)
        lPro == lNot \o (IF provider
                         THEN <<Ev("Provide", <<c>>, Res(provideErr))>> ELSE <<>>)
    IN  IF f = "nil"
        THEN [ret |-> Result(err, NoBlock), log |-> <<>>, store |-> st]
        ELSE IF fetchErr
        THEN [ret |-> Result("FetchErr", NoBlock), log |-> lGet, store |-> st]
        ELSE IF putErr
        THEN [ret |-> Result("StoreErr", NoBlock), log |-> lPut, store |-> st]
        ELSE IF exchange # "nil" /\ notifyErr
        THEN [ret |-> Result("NotifyErr", NoBlock), log |-> lNot, store |-> st \cup {c}]
        ELSE IF provider /\ provideErr
        THEN [ret |-> Result("ProvideErr", NoBlock), log |-> lPro, store |-> st \cup {c}]
        ELSE [ret |-> Result("nil", c), log |-> lPro, store |-> st \cup {c}]

GetBlockFetch(p) ==
    /\ pc[p] = "fetch"
    /\ call[p].op = "GetBlock"
    /\ \E fetchErr, putErr, notifyErr, provideErr \in BOOLEAN :
         LET r == GetBlockRemote(call[p].arg[1], fetch[p], store, ret[p].err,
                                 fetchErr, putErr, notifyErr, provideErr)
         IN  /\ store' = r.store
             /\ log' = [log EXCEPT ![p] = @ \o r.log]
             /\ ret' = [ret EXCEPT ![p] = r.ret]
    /\ Goto(p, "done")
    /\ UNCHANGED <<cfgvars, sesvars, call, fetch, taskvars>>


\* ------------------------------------------------------------- batch read

\* getBlocks, the first loop: the index the range loop stops at (counted from 0) is
\* that of the first cid the allowlist rejects, or of the last cid when none is
LastAllValidIndex(input) ==
    LET bad == {i \in 1..Len(input) : ~ValidateCid(DefaultAllowlist, input[i])}
    IN  IF input = <<>> THEN 0
        ELSE IF bad = {} THEN Len(input) - 1
        ELSE (CHOOSE i \in bad : \A j \in bad : i <= j) - 1

\* the second pass starting after the cid the first loop stopped at, as if that
\* cid were always a rejected one
ValidatedKsSkipStop(input) ==
    LET last == LastAllValidIndex(input)
    IN  IF last # Len(input)
        THEN SubSeq(input, 1, last) \o
             SelectSeq(SubSeq(input, last + 2, Len(input)),
                       LAMBDA c : ValidateCid(DefaultAllowlist, c))
        ELSE input

\* getBlocks, the validation phase: the list the local phase scans
ValidatedKs(input) ==
    LET last == LastAllValidIndex(input)
    IN  IF last # Len(input)
        THEN SubSeq(input, 1, last) \o
             SelectSeq(SubSeq(input, last + 1, Len(input)),
                       LAMBDA c : ValidateCid(DefaultAllowlist, c))
        ELSE input

\* the goroutine of getBlocks returns: the deferred close(out) runs; why names the
\* return statement taken
Close(p, why) ==
    /\ closes' = [closes EXCEPT ![p] = @ + 1]
    /\ ret' = [ret EXCEPT ![p] = Result(why, NoBlock)]
    /\ Goto(p, "done")

\* blockService.GetBlocks (via = "direct") and Session.GetBlocks (via = "session"):
\* out is made, the goroutine starts and validates
GetBlocks(p, input, via) ==
    /\ Free(p)
    /\ Begin(p, "GetBlocks", via, input)
    /\ ks' = [ks EXCEPT ![p] = ValidatedKs(input)]
    /\ log' = [log EXCEPT ![p] = <<>>]
    /\ ret' = [ret EXCEPT ![p] = NoRet]
    /\ Goto(p, "local")
    /\ UNCHANGED <<cfgvars, sesvars, store>>

\* the local phase returning on a lookup error other than not-found, as getBlock does
LocalGetErrEnds(p) ==
    /\ pc[p] = "local"
    /\ idx[p] < Len(ks[p])
    /\ LET c == ks[p][idx[p] + 1]
       IN  \E getErr \in BOOLEAN :
             IF getErr
             THEN /\ log' = [log EXCEPT ![p] = Append(@, Ev("Get", <<c>>, "err"))]
                  /\ Close(p, "StoreErr")
                  /\ UNCHANGED <<idx, misses, cur>>
             ELSE IF c \in store
             THEN /\ log' = [log EXCEPT ![p] = Append(@, Ev("Get", <<c>>, "ok"))]
                  /\ cur' = [cur EXCEPT ![p] = c]
                  /\ Goto(p, "send_local")
                  /\ UNCHANGED <<idx, misses, ret, closes>>
             ELSE /\ log' = [log EXCEPT ![p] = Append(@, Ev("Get", <<c>>, "NotFound"))]
                  /\ misses' = [misses EXCEPT ![p] = Append(@, c)]
                  /\ idx' = [idx EXCEPT ![p] = @ + 1]
                  /\ Goto(p, "local")
                  /\ UNCHANGED <<cur, ret, closes>>
    /\ UNCHANGED <<cfgvars, sesvars, store, call, fetch, ks, pending, out, cancelled>>

\* the local phase: hit, err := bs.Get(ctx, c) for the next cid of ks
LocalGet(p) ==
    /\ pc[p] = "local"
    /\ idx[p] < Len(ks[p])
    /\ LET c == ks[p][idx[p] + 1]
       IN  \E getErr \in BOOLEAN :
             IF ~getErr /\ c \in store
             THEN /\ log' = [log EXCEPT ![p] = Append(@, Ev("Get", <<c>>, "ok"))]
                  /\ cur' = [cur EXCEPT ![p] = c]
                  /\ Goto(p, "send_local")
                  /\ UNCHANGED <<idx, misses>>
             ELSE /\ log' = [log EXCEPT ![p] =
                               Append(@, Ev("Get", <<c>>,
                                            IF getErr THEN "err" ELSE "NotFound"))]
                  /\ misses' = [misses EXCEPT ![p] = Append(@, c)]
                  /\ idx' = [idx EXCEPT ![p] = @ + 1]
                  /\ Goto(p, "local")
                  /\ UNCHANGED cur
    /\ UNCHANGED <<cfgvars, sesvars, store, call, ret, fetch, ks, pending, out,
                   closes, cancelled>>

\* the hit reaching the consumer ahead of the hits sent before it
SendLocalOutOfOrder(p) ==
    /\ pc[p] = "send_local"
    /\ out' = [out EXCEPT ![p] = <<cur[p]>> \o @]
    /\ cur' = [cur EXCEPT ![p] = NoBlock]
    /\ idx' = [idx EXCEPT ![p] = @ + 1]
    /\ Goto(p, "local")
    /\ UNCHANGED <<cfgvars, sesvars, store, call, log, ret, fetch, ks, misses,
                   pending, closes, cancelled>>

\* select, case out <- hit: the consumer receives the hit
SendLocal(p) ==
    /\ pc[p] = "send_local"
    /\ out' = [out EXCEPT ![p] = Append(@, cur[p])]
    /\ cur' = [cur EXCEPT ![p] = NoBlock]
    /\ idx' = [idx EXCEPT ![p] = @ + 1]
    /\ Goto(p, "local")
    /\ UNCHANGED <<cfgvars, sesvars, store, call, log, ret, fetch, ks, misses,
                   pending, closes, cancelled>>

\* select, case <-ctx.Done(): return
DoneLocal(p) ==
    /\ pc[p] = "send_local"
    /\ cancelled[p]
    /\ Close(p, "cancelled")
    /\ UNCHANGED <<cfgvars, sesvars, store, call, log, fetch, ks, idx, misses,
                   pending, cur, out, cancelled>>

\* the local loop is over: fetch := fetchFactory() comes next
LocalEnd(p) ==
    /\ pc[p] = "local"
    /\ idx[p] = Len(ks[p])
    /\ Goto(p, "factory")
    /\ UNCHANGED <<cfgvars, sesvars, store, call, log, ret, fetch, taskvars>>

\* if len(misses) == 0 || fetch == nil { return }, then
\* rblocks, err := fetch.GetBlocks(ctx, misses)
Dispatch(p) ==
    /\ pc[p] = "fetch"
    /\ call[p].op = "GetBlocks"
    /\ IF misses[p] = <<>> \/ fetch[p] = "nil"
       THEN /\ Close(p, "local")
            /\ UNCHANGED <<log, pending>>
       ELSE \E fetchErr \in BOOLEAN :
              /\ log' = [log EXCEPT ![p] =
                            Append(@, Ev("GetBlocks", misses[p], Res(fetchErr)))]
              /\ IF fetchErr
                 THEN /\ Close(p, "FetchErr")
                      /\ UNCHANGED pending
                 ELSE /\ pending' = [pending EXCEPT ![p] = SeqToSet(misses[p])]
                      /\ Goto(p, "recv")
                      /\ UNCHANGED <<ret, closes>>
    /\ UNCHANGED <<cfgvars, sesvars, store, call, fetch, ks, idx, misses, cur, out,
                   cancelled>>

\* select, case v, ok := <-rblocks with ok: the exchange delivers block b
Recv(p, b) ==
    /\ pc[p] = "recv"
    /\ b \in pending[p]
    /\ pending' = [pending EXCEPT ![p] = @ \ {b}]
    /\ cur' = [cur EXCEPT ![p] = b]
    /\ Goto(p, "write")
    /\ UNCHANGED <<cfgvars, sesvars, store, call, log, ret, fetch, ks, idx, misses,
                   out, closes, cancelled>>

\* the goroutine returning on a closed rblocks without closing out
RecvClosedNoClose(p) ==
    /\ pc[p] = "recv"
    /\ ret' = [ret EXCEPT ![p] = Result("closed", NoBlock)]
    /\ Goto(p, "done")
    /\ UNCHANGED <<cfgvars, sesvars, store, call, log, fetch, ks, idx, misses,
                   pending, cur, out, closes, cancelled>>

\* select, case v, ok := <-rblocks with !ok: the exchange closed rblocks
RecvClosed(p) ==
    /\ pc[p] = "recv"
    /\ Close(p, "closed")
    /\ UNCHANGED <<cfgvars, sesvars, store, call, log, fetch, ks, idx, misses,
                   pending, cur, out, cancelled>>

\* the receive from rblocks not racing against ctx.Done()
DoneRecvNever(p) ==
    /\ pc[p] = "recv"
    /\ FALSE
    /\ UNCHANGED vars

\* select, case <-ctx.Done(): return
DoneRecv(p) ==
    /\ pc[p] = "recv"
    /\ cancelled[p]
    /\ Close(p, "cancelled")
    /\ UNCHANGED <<cfgvars, sesvars, store, call, log, fetch, ks, idx, misses,
                   pending, cur, out, cancelled>>

\* the network phase logging a failed NotifyNewBlocks and going on, as AddBlock does
WriteBackRunNotifyBestEffort(b, st, putErr, notifyErr, provideErr) ==
    LET lPut == <<Ev("Put", <<b>>, Res(putErr))>>
        lNot == lPut \o (IF exchange # "nil"
                         THEN <<Ev("NotifyNewBlocks", <<b>>, Res(notifyErr))>> ELSE <<>>)
        lPro == lNot \o (IF provider
                         THEN <<Ev("Provide", <<b>>, Res(provideErr))>> ELSE <<>>)
    IN  IF putErr
        THEN [next |-> "done", why |-> "StoreErr", log |-> lPut, store |-> st]
        ELSE IF provider /\ provideErr
        THEN [next |-> "done", why |-> "ProvideErr", log |-> lPro, store |-> st \cup {b}]
        ELSE [next |-> "send_net", why |-> "none", log |-> lPro, store |-> st \cup {b}]

\* the network phase logging a failed Provide and sending the block all the same
WriteBackRunProvideBestEffort(b, st, putErr, notifyErr, provideErr) ==
    LET lPut == <<Ev("Put", <<b>>, Res(putErr))>>
        lNot == lPut \o (IF exchange # "nil"
                         THEN <<Ev("NotifyNewBlocks", <<b>>, Res(notifyErr))>> ELSE <<>>)
        lPro == lNot \o (IF provider
                         THEN <<Ev("Provide", <<b>>, Res(provideErr))>> ELSE <<>>)
    IN  IF putErr
        THEN [next |-> "done", why |-> "StoreErr", log |-> lPut, store |-> st]
        ELSE IF exchange # "nil" /\ notifyErr
        THEN [next |-> "done", why |-> "NotifyErr", log |-> lNot, store |-> st \cup {b}]
        ELSE [next |-> "send_net", why |-> "none", log |-> lPro, store |-> st \cup {b}]

\* the network phase for the received block b: bs.Put, ex.NotifyNewBlocks,
\* provider.Provide; next = "done" when one of them fails
WriteBackRun(b, st, putErr, notifyErr, provideErr) ==
    LET lPut == <<Ev("Put", <<b>>, Res(putErr))>>
        lNot == lPut \o (IF exchange # "nil"
                         THEN <<Ev("NotifyNewBlocks", <<b>>, Res(notifyErr))>> ELSE <<>>)
        lPro == lNot \o (IF provider
                         THEN <<Ev("Provide", <<b>>, Res(provideErr))>> ELSE <<>>)
    IN  IF putErr
        THEN [next |-> "done", why |-> "StoreErr", log |-> lPut, store |-> st]
        ELSE IF exchange # "nil" /\ notifyErr
        THEN [next |-> "done", why |-> "NotifyErr", log |-> lNot, store |-> st \cup {b}]
        ELSE IF provider /\ provideErr
        THEN [next |-> "done", why |-> "ProvideErr", log |-> lPro, store |-> st \cup {b}]
        ELSE [next |-> "send_net", why |-> "none", log |-> lPro, store |-> st \cup {b}]

WriteBack(p) ==
    /\ pc[p] = "write"
    /\ \E putErr, notifyErr, provideErr \in BOOLEAN :
         LET r == WriteBackRun(cur[p], store, putErr, notifyErr, provideErr)
         IN  /\ store' = r.store
             /\ log' = [log EXCEPT ![p] = @ \o r.log]
             /\ IF r.next = "done"
                THEN Close(p, r.why)
                ELSE /\ Goto(p, r.next)
                     /\ UNCHANGED <<ret, closes>>
    /\ UNCHANGED <<cfgvars, sesvars, call, fetch, ks, idx, misses, pending, cur, out,
                   cancelled>>

\* the network phase going back to rblocks without sending the block
SendNetDrop(p) ==
    /\ pc[p] = "send_net"
    /\ cur' = [cur EXCEPT ![p] = NoBlock]
    /\ Goto(p, "recv")
    /\ UNCHANGED <<cfgvars, sesvars, store, call, log, ret, fetch, ks, idx, misses,
                   pending, out, closes, cancelled>>

\* select, case out <- b: the consumer receives the block
SendNet(p) ==
    /\ pc[p] = "send_net"
    /\ out' = [out EXCEPT ![p] = Append(@, cur[p])]
    /\ cur' = [cur EXCEPT ![p] = NoBlock]
    /\ Goto(p, "recv")
    /\ UNCHANGED <<cfgvars, sesvars, store, call, log, ret, fetch, ks, idx, misses,
                   pending, closes, cancelled>>

\* select, case <-ctx.Done(): return
DoneNet(p) ==
    /\ pc[p] = "send_net"
    /\ cancelled[p]
    /\ Close(p, "cancelled")
    /\ UNCHANGED <<cfgvars, sesvars, store, call, log, fetch, ks, idx, misses,
                   pending, cur, out, cancelled>>

\* the caller cancels the ctx of a running GetBlocks
Cancel(p) ==
    /\ call[p].op = "GetBlocks"
    /\ ~Free(p)
    /\ ~cancelled[p]
    /\ cancelled' = [cancelled EXCEPT ![p] = TRUE]
    /\ UNCHANGED <<cfgvars, sesvars, store, pc, call, log, ret, fetch, ks, idx,
                   misses, pending, cur, out, closes>>

\* the steps the goroutine of getBlocks takes by itself
TaskStep(p) ==
    \/ LocalGet(p)
    \/ LocalEnd(p)
    \/ DoneLocal(p)
    \/ FetchFactory(p)
    \/ Dispatch(p)
    \/ DoneRecv(p)
    \/ WriteBack(p)
    \/ DoneNet(p)

\* the steps that need the consumer of out, the exchange or the caller
EnvStep(p) ==
    \/ SendLocal(p)
    \/ SendNet(p)
    \/ \E b \in Cids : Recv(p, b)
    \/ RecvClosed(p)
    \/ Cancel(p)

\* ------------------------------------------------------------- specifications

\* the caller takes the result of a finished call
Return(p) ==
    /\ pc[p] = "done"
    /\ Goto(p, "idle")
    /\ call' = [call EXCEPT ![p] = NoCall]
    /\ log' = [log EXCEPT ![p] = <<>>]
    /\ ret' = [ret EXCEPT ![p] = NoRet]
    /\ fetch' = [fetch EXCEPT ![p] = "unset"]
    /\ ks' = [ks EXCEPT ![p] = <<>>]
    /\ idx' = [idx EXCEPT ![p] = 0]
    /\ misses' = [misses EXCEPT ![p] = <<>>]
    /\ pending' = [pending EXCEPT ![p] = {}]
    /\ cur' = [cur EXCEPT ![p] = NoBlock]
    /\ out' = [out EXCEPT ![p] = <<>>]
    /\ closes' = [closes EXCEPT ![p] = 0]
    /\ cancelled' = [cancelled EXCEPT ![p] = FALSE]
    /\ UNCHANGED <<cfgvars, sesvars, store>>

\* the synchronous operations, made one after the other by one caller
Next ==
    \E p \in Solo :
        \/ /\ pc[p] = "idle"
           /\ \/ \E o \in Cids : AddBlock(p, o)
              \/ \E bs \in BatchInputs : AddBlocks(p, bs)
              \/ \E c \in Cids : DeleteBlock(p, c)
              \/ \E c \in Cids, via \in {"direct", "session"} : GetBlock(p, c, via)
        \/ FetchFactory(p)
        \/ GetBlockFetch(p)
        \/ Return(p)

Spec == Init /\ [][Next]_vars

\* AddBlock and DeleteBlock alone, each call following the last one directly
AddNext ==
    \E p \in Solo :
        \/ \E o \in Cids : AddBlock(p, o)
        \/ \E c \in Cids : DeleteBlock(p, c)

AddSpec == Init /\ [][AddNext]_vars

\* one GetBlocks call, made on a service and a Session just constructed, over any
\* blockstore that holds allowed blocks
TaskNext ==
    \E p \in Solo :
        \/ /\ pc[p] = "idle"
           /\ \E input \in KsInputs, via \in {"direct", "session"} : GetBlocks(p, input, via)
        \/ TaskStep(p)
        \/ EnvStep(p)

InitTask == Init /\ checkFirst /\ \A c \in store : ValidateCid(DefaultAllowlist, c)

TaskSpec == InitTask /\ [][TaskNext]_vars

\* one GetBlocks call over a list of at most MaxFairKs cids, whose goroutine keeps
\* running while it can take a step by itself; the consumer of out, the exchange
\* and the caller are free to do nothing
FairTaskNext ==
    \E p \in Solo :
        \/ /\ pc[p] = "idle"
           /\ \E input \in {l \in KsInputs : Len(l) <= MaxFairKs},
                 via \in {"direct", "session"} : GetBlocks(p, input, via)
        \/ TaskStep(p)
        \/ EnvStep(p)

FairTaskSpec ==
    InitTask /\ [][FairTaskNext]_vars /\ \A p \in Solo : WF_vars(TaskStep(p))

\* one GetBlocks call as in TaskSpec, over a blockstore that holds no other blocks
\* than blocks the call asks for: getBlocks reads the blockstore through bs.Get
\* of the cids of ks only, so the other blocks play no part in the call
ScanNext ==
    \E p \in Solo :
        \/ /\ pc[p] = "idle"
           /\ \E input \in KsInputs, via \in {"direct", "session"} :
                 /\ store \subseteq SeqToSet(input)
                 /\ GetBlocks(p, input, via)
        \/ TaskStep(p)
        \/ EnvStep(p)

ScanSpec == InitTask /\ [][ScanNext]_vars

\* one read, GetBlock or GetBlocks over a list of at most MaxFairKs cids, direct or
\* on the Session
ReadNext ==
    \E p \in Solo :
        \/ /\ pc[p] = "idle"
           /\ \/ \E c \in Cids, via \in {"direct", "session"} : GetBlock(p, c, via)
              \/ \E input \in {l \in KsInputs : Len(l) <= MaxFairKs},
                    via \in {"direct", "session"} : GetBlocks(p, input, via)
        \/ GetBlockFetch(p)
        \/ TaskStep(p)
        \/ EnvStep(p)

ReadSpec == InitTask /\ [][ReadNext]_vars

\* goroutines calling GetBlock and GetBlocks on the one Session at the same time,
\* each call for one cid, the first allowed one or the rejected one. No call is
\* cancelled and the exchange closes rblocks without delivering: the network
\* phase of GetBlocks is explored in TaskSpec.
SessionInputs == {<<1>>, <<NumCids>>}

SessionNext ==
    \E p \in Procs :
        \/ /\ pc[p] = "idle"
           /\ \E input \in SessionInputs :
                 \/ GetBlock(p, input[1], "session")
                 \/ GetBlocks(p, input, "session")
        \/ OnceDo(p)
        \/ InitExchange(p)
        \/ InitNewSession(p)
        \/ InitDefer(p)
        \/ GrabReturn(p)
        \/ GetBlockFetch(p)
        \/ LocalGet(p)
        \/ SendLocal(p)
        \/ LocalEnd(p)
        \/ Dispatch(p)
        \/ RecvClosed(p)
        \/ Return(p)

InitSession == InitTask /\ store \subseteq {1}

SessionSpec == InitSession /\ [][SessionNext]_vars

\* ------------------------------------------------------------- properties

Rejected(arg) == \E i \in 1..Len(arg) : ~ValidateCid(DefaultAllowlist, arg[i])

\* the calls of a log that reach the blockstore, the exchange or the provider to
\* read, fetch, write or announce blocks
BlockOps == {"GetBlock", "GetBlocks", "Put", "PutMany", "NotifyNewBlocks", "Provide"}

\* C1: an AddBlock, AddBlocks or GetBlock call (direct or on the Session) given a
\* cid the allowlist rejects (for AddBlocks: any cid of the batch) has returned
\* ErrRejected having made no call to the blockstore, the exchange or the
\* provider, and without asking for a fetcher.
C1_RejectedNoCalls ==
    \A p \in Procs :
        (call[p].op \in {"AddBlock", "AddBlocks", "GetBlock"} /\ Rejected(call[p].arg))
            => /\ pc[p] = "done"
               /\ ret[p] = Result("ErrRejected", NoBlock)
               /\ log[p] = <<>>
               /\ fetch[p] = "unset"

\* an AddBlocks call was rejected for its second block, the first being allowed
C1_Witness ==
    \E p \in Procs :
        /\ call[p].op = "AddBlocks"
        /\ Len(call[p].arg) = 2
        /\ ValidateCid(DefaultAllowlist, call[p].arg[1])
        /\ ~ValidateCid(DefaultAllowlist, call[p].arg[2])
        /\ call[p].arg[1] \notin store
        /\ ret[p].err = "ErrRejected"

\* C7: a GetBlock call whose lookup ended not-found, on a service with an exchange
\* and a provider, all of whose later calls succeeded, has made exactly one
\* fetch, one Put, one NotifyNewBlocks and one Provide, all for the requested
\* block, and has returned that block.
C7_FetchedOnce ==
    \A p \in Procs :
        ( /\ pc[p] = "done"
          /\ call[p].op = "GetBlock"
          /\ exchange # "nil"
          /\ provider
          /\ log[p] # <<>>
          /\ log[p][1].res = "NotFound"
          /\ \A i \in 2..Len(log[p]) : log[p][i].res = "ok" )
            => LET c == call[p].arg[1]
               IN  /\ SelectOp(log[p], BlockOps) =
                         << Ev("GetBlock", <<c>>, "ok"), Ev("Put", <<c>>, "ok"),
                            Ev("NotifyNewBlocks", <<c>>, "ok"), Ev("Provide", <<c>>, "ok") >>
                   /\ ret[p] = Result("nil", c)
                   /\ c \in store

\* a GetBlock on the Session fetched, stored, notified and provided its block
C7_Witness ==
    \E p \in Procs :
        /\ pc[p] = "done"
        /\ call[p].op = "GetBlock"
        /\ call[p].via = "session"
        /\ exchange = "session"
        /\ provider
        /\ log[p] # <<>>
        /\ log[p][1].res = "NotFound"
        /\ Count(log[p], "Provide") = 1
        /\ ret[p] = Result("nil", call[p].arg[1])

\* C8: a GetBlock call (direct or on the Session) whose lookup found the block has
\* returned it having made that one Get and nothing else: no fetch, no notify,
\* no session, no Put, no Provide, and it never asked for a fetcher.
C8_LocalHitNoExchange ==
    \A p \in Procs :
        ( /\ pc[p] = "done"
          /\ call[p].op = "GetBlock"
          /\ log[p] # <<>>
          /\ log[p][1].res = "ok" )
            => /\ log[p] = <<Ev("Get", call[p].arg, "ok")>>
               /\ ret[p] = Result("nil", call[p].arg[1])
               /\ fetch[p] = "unset"

\* a GetBlock on the Session of a service with a session exchange was served locally
C8_Witness ==
    \E p \in Procs :
        /\ pc[p] = "done"
        /\ call[p].op = "GetBlock"
        /\ call[p].via = "session"
        /\ exchange = "session"
        /\ ret[p].err = "nil"
        /\ Len(log[p]) = 1
        /\ once = "new"

\* C9: a finished GetBlock call has fetched from the exchange only if its lookup
\* ended not-found and a fetcher exists; with no exchange it has returned the
\* not-found error of the lookup, and after any other lookup error it has
\* returned that error, in both cases with no call after the lookup.
C9_FallbackOnlyOnNotFound ==
    \A p \in Procs :
        (pc[p] = "done" /\ call[p].op = "GetBlock" /\ log[p] # <<>>)
            => /\ Count(log[p], "GetBlock") > 0
                    => /\ log[p][1].res = "NotFound"
                       /\ exchange # "nil"
                       /\ fetch[p] \in {"exchange", "session"}
               /\ (log[p][1].res = "NotFound" /\ exchange = "nil")
                    => /\ ret[p] = Result("NotFound", NoBlock)
                       /\ Len(log[p]) = 1
               /\ log[p][1].res = "err"
                    => /\ ret[p] = Result("StoreErr", NoBlock)
                       /\ Len(log[p]) = 1

\* a GetBlock on the Session of a service without exchange returned not-found
C9_Witness ==
    \E p \in Procs :
        /\ pc[p] = "done"
        /\ call[p].op = "GetBlock"
        /\ call[p].via = "session"
        /\ exchange = "nil"
        /\ fetch[p] = "nil"
        /\ ret[p] = Result("NotFound", NoBlock)

\* C10: with checkFirst set, when an AddBlock call that found its block absent and
\* succeeded is followed by a second successful AddBlock call for the same block,
\* the two calls together make exactly one Put and at most one NotifyNewBlocks
\* and one Provide: the second call makes its Has, finds the block and returns nil.
C10_SecondAddIsNoOp ==
    [][ \A p \in Procs :
          ( /\ checkFirst
            /\ pc[p] = "done"
            /\ call[p].op = "AddBlock"
            /\ log[p] # <<>>
            /\ log[p][1].res = "false"
            /\ ret[p].err = "nil"
            /\ call'[p] = call[p]
            /\ log'[p] # log[p]
            /\ ret'[p].err = "nil" )
              => /\ Count(log[p], "Put") + Count(log'[p], "Put") = 1
                 /\ Count(log[p], "NotifyNewBlocks") + Count(log'[p], "NotifyNewBlocks") <= 1
                 /\ Count(log[p], "Provide") + Count(log'[p], "Provide") <= 1
                 /\ log'[p] = <<Ev("Has", call[p].arg, "true")>>
      ]_vars

\* an AddBlock call found its block in the blockstore and returned nil after the Has
C10_Witness ==
    \E p \in Procs :
        /\ checkFirst
        /\ exchange # "nil"
        /\ provider
        /\ pc[p] = "done"
        /\ call[p].op = "AddBlock"
        /\ log[p] = <<Ev("Has", call[p].arg, "true")>>
        /\ ret[p].err = "nil"

AllValid(arg) == \A i \in 1..Len(arg) : ValidateCid(DefaultAllowlist, arg[i])
Distinct(arg) == \A i, j \in 1..Len(arg) : arg[i] = arg[j] => i = j

\* the cids a GetBlocks call found in the blockstore
LocalHits(p) == {c \in Cids : \E i \in 1..Len(log[p]) : log[p][i] = Ev("Get", <<c>>, "ok")}
\* the cids whose block the exchange delivered on rblocks
Dispatched(p) == \E i \in 1..Len(log[p]) : log[p][i] = Ev("GetBlocks", misses[p], "ok")
Delivered(p) == IF Dispatched(p) THEN SeqToSet(misses[p]) \ pending[p] ELSE {}

\* C2: a GetBlocks call over distinct allowed cids that ended after the local phase,
\* on a refused fetch or because the exchange closed rblocks has sent on out
\* exactly one block for each cid found in the blockstore or delivered by the
\* exchange, none for the others, and has closed out.
C2_ExactlyResolved ==
    \A p \in Procs :
        ( /\ pc[p] = "done"
          /\ call[p].op = "GetBlocks"
          /\ AllValid(call[p].arg)
          /\ Distinct(call[p].arg)
          /\ ret[p].err \in {"local", "FetchErr", "closed"} )
            => /\ SeqToSet(out[p]) = LocalHits(p) \cup Delivered(p)
               /\ Len(out[p]) = Cardinality(LocalHits(p) \cup Delivered(p))
               /\ closes[p] = 1

\* of three cids one was found locally, one delivered by the exchange and one was
\* not resolved: two blocks were sent and out is closed
C2_Witness ==
    \E p \in Procs :
        /\ pc[p] = "done"
        /\ call[p].op = "GetBlocks"
        /\ Len(call[p].arg) = 3
        /\ Distinct(call[p].arg)
        /\ ret[p].err = "closed"
        /\ Cardinality(LocalHits(p)) = 1
        /\ Cardinality(Delivered(p)) = 1
        /\ Cardinality(pending[p]) = 1
        /\ Len(out[p]) = 2
        /\ closes[p] = 1

\* C3: out is closed once, when the goroutine of GetBlocks ends and not before,
\* whichever return it takes, and no block is sent on out once it is closed.
C3_ClosedOnceAtEnd ==
    [][ \A p \in Procs :
          call'[p].op = "GetBlocks"
            => /\ closes'[p] = IF pc'[p] = "done" THEN 1 ELSE 0
               /\ (closes[p] > 0 /\ call[p] = call'[p]) => out'[p] = out[p]
      ]_vars

\* a GetBlocks call ended on a failed NotifyNewBlocks after it had sent a block
C3_Witness ==
    \E p \in Procs :
        /\ pc[p] = "done"
        /\ call[p].op = "GetBlocks"
        /\ ret[p].err = "NotifyErr"
        /\ out[p] # <<>>
        /\ closes[p] = 1

\* C4, as claimed: once ctx is cancelled the goroutine sends no further block.
C4_NoSendAfterCancel ==
    [][ \A p \in Procs : (cancelled[p] /\ cancelled'[p]) => out'[p] = out[p] ]_vars

\* C4, amended: once ctx is cancelled out is eventually closed, whether or not the
\* consumer reads and the exchange delivers or closes rblocks.
C4_CancelLeadsToClose ==
    \A p \in Procs : cancelled[p] ~> (pc[p] = "done" /\ closes[p] = 1)

\* a cancelled GetBlocks call ended while the exchange still owed blocks
C4_Witness ==
    \E p \in Procs :
        /\ pc[p] = "done"
        /\ cancelled[p]
        /\ ret[p].err = "cancelled"
        /\ pending[p] # {}
        /\ closes[p] = 1

\* C5: NewSession is called at most once for the Session, and a call that got its
\* fetcher from the Session got it after the initialisation completed, got what
\* the Session holds, and never the raw exchange when the exchange has sessions.
C5_OneSessionSameFetcher ==
    /\ nsess <= 1
    /\ \A p \in Procs :
         (call[p].via = "session" /\ fetch[p] # "unset")
            => /\ once = "done"
               /\ fetch[p] = ses
               /\ exchange = "session" => fetch[p] = "session"
               /\ \A q \in Procs :
                    (call[q].via = "session" /\ fetch[q] # "unset") => fetch[q] = fetch[p]

\* two calls running at once both hold the one session that was constructed
C5_Witness ==
    \E p, q \in Procs :
        /\ p # q
        /\ pc[p] = "fetch"
        /\ pc[q] = "fetch"
        /\ fetch[p] = "session"
        /\ fetch[q] = "session"
        /\ nsess = 1

\* C6, as claimed: a GetBlock or GetBlocks call (direct or on the Session) all of
\* whose cids were found in the blockstore has constructed no exchange session
\* and fetched nothing (asking the Session for its fetcher is what constructs it).
C6_NoSessionWhenAllLocal ==
    \A p \in Procs :
        ( /\ pc[p] = "done"
          /\ call[p].op \in {"GetBlock", "GetBlocks"}
          /\ call[p].arg # <<>>
          /\ AllValid(call[p].arg)
          /\ SelectOp(log[p], {"Get"}) =
                 [i \in 1..Len(call[p].arg) |-> Ev("Get", <<call[p].arg[i]>>, "ok")] )
            => /\ Count(log[p], "NewSession") = 0
               /\ Count(log[p], "GetBlock") + Count(log[p], "GetBlocks") = 0

\* C11: with checkFirst unset, a finished AddBlock call for an allowed cid has made
\* no Has and its first call is the Put of that block, whether or not the
\* blockstore held it; a finished AddBlocks call for a non-empty batch of allowed
\* cids has made no Has and its first call is PutMany of the whole batch.
C11_WriteThroughAlwaysPuts ==
    \A p \in Procs :
        ( /\ ~checkFirst
          /\ pc[p] = "done"
          /\ call[p].op \in {"AddBlock", "AddBlocks"}
          /\ call[p].arg # <<>>
          /\ AllValid(call[p].arg) )
            => /\ Count(log[p], "Has") = 0
               /\ log[p] # <<>>
               /\ log[p][1].op = (IF call[p].op = "AddBlock" THEN "Put" ELSE "PutMany")
               /\ log[p][1].arg = call[p].arg
               /\ Count(log[p], "Put") + Count(log[p], "PutMany") = 1

\* with checkFirst unset, an AddBlocks call handed PutMany its two blocks, one of
\* which the blockstore holds and one of which it does not (the PutMany failed,
\* so the blockstore is as the call found it)
C11_Witness ==
    \E p \in Procs :
        /\ ~checkFirst
        /\ pc[p] = "done"
        /\ call[p].op = "AddBlocks"
        /\ Len(call[p].arg) = 2
        /\ call[p].arg[1] \in store
        /\ call[p].arg[2] \notin store
        /\ log[p] = <<Ev("PutMany", call[p].arg, "err")>>
        /\ ret[p].err = "StoreErr"

\* C12: a finished DeleteBlock call, for an allowed cid or a rejected one, has made
\* exactly one call, blockstore.DeleteBlock of that cid, has returned what that
\* call returned, was not refused by the allowlist, has made no call to the
\* exchange or the provider and asked for no fetcher.
C12_DeletePassesThrough ==
    \A p \in Procs :
        (pc[p] = "done" /\ call[p].op = "DeleteBlock")
            => /\ Len(log[p]) = 1
               /\ log[p][1].op = "DeleteBlock"
               /\ log[p][1].arg = call[p].arg
               /\ ret[p] = Result(IF log[p][1].res = "ok" THEN "nil" ELSE "StoreErr", NoBlock)
               /\ SelectOp(log[p], ExchangeOps \cup ProviderOps) = <<>>
               /\ fetch[p] = "unset"
               /\ log[p][1].res = "ok" => call[p].arg[1] \notin store

\* a DeleteBlock call for a cid the allowlist rejects deleted it from the blockstore
C12_Witness ==
    \E p \in Procs :
        /\ pc[p] = "done"
        /\ call[p].op = "DeleteBlock"
        /\ ~ValidateCid(DefaultAllowlist, call[p].arg[1])
        /\ log[p] = <<Ev("DeleteBlock", call[p].arg, "ok")>>
        /\ ret[p].err = "nil"
        /\ exchange # "nil"
        /\ provider

\* the allowed cids of a list, each as often as it occurs and in the order of the list
ValidOf(arg) == SelectSeq(arg, LAMBDA c : ValidateCid(DefaultAllowlist, c))

\* C13: in a GetBlocks call, whatever its input (empty, all allowed, all rejected,
\* a rejected cid first, last or in between), the list scanned after the
\* validation phase is the input with the rejected cids removed, the allowed ones
\* kept as often as they occur and in their order; and no rejected cid is looked
\* up in the blockstore, put on the miss list or handed to the exchange.
C13_ValidationFilters ==
    \A p \in Procs :
        call[p].op = "GetBlocks"
            => /\ ks[p] = ValidOf(call[p].arg)
               /\ AllValid(misses[p])
               /\ \A i \in 1..Len(log[p]) :
                    log[p][i].op \in {"Get", "GetBlocks"} => AllValid(log[p][i].arg)

\* a GetBlocks call for an allowed cid, a rejected one and another allowed one has
\* looked up the two allowed cids and handed both to the exchange
C13_Witness ==
    \E p \in Procs :
        /\ pc[p] = "done"
        /\ call[p].op = "GetBlocks"
        /\ Len(call[p].arg) = 3
        /\ ValidateCid(DefaultAllowlist, call[p].arg[1])
        /\ ~ValidateCid(DefaultAllowlist, call[p].arg[2])
        /\ ValidateCid(DefaultAllowlist, call[p].arg[3])
        /\ call[p].arg[1] # call[p].arg[3]
        /\ ks[p] = <<call[p].arg[1], call[p].arg[3]>>
        /\ Count(log[p], "Get") = 2
        /\ Count(log[p], "GetBlocks") = 1
        /\ misses[p] = ks[p]

\* the lookups a GetBlocks call has made, in order, and the cids of those that hit
Gets(p) == SelectSeq(log[p], LAMBDA e : e.op = "Get")
\* fetch.GetBlocks was called, and the positions of the log with a call of op
Fetched(p) == \E i \in 1..Len(log[p]) : log[p][i].op = "GetBlocks"
CallsOf(p, op) == {i \in 1..Len(log[p]) : log[p][i].op = op}
HitSeq(p) ==
    LET hits == SelectSeq(Gets(p), LAMBDA e : e.res = "ok")
    IN  [i \in 1..Len(hits) |-> hits[i].arg[1]]

\* C14: in a GetBlocks call the lookups follow the filtered list in its order, and
\* the blocks sent on out start with the local hits in the order they were found.
\* The lookups are the first calls the goroutine makes. Until fetch.GetBlocks is
\* called out holds nothing but these hits (all of them, but for the one the
\* goroutine is about to send); when it is called every lookup has been made
\* and every hit has been sent, so each block that comes from the exchange is
\* sent after all the local hits.
C14_LocalHitsFirstInOrder ==
    \A p \in Procs :
        call[p].op = "GetBlocks"
            => LET gets == Gets(p)
                   hits == HitSeq(p)
                   nOut == Len(out[p])
                   nHit == Len(hits)
                   owed == {misses[p][k] : k \in 1..Len(misses[p])} \ pending[p]
               IN  /\ Len(gets) <= Len(ks[p])
                   /\ \A i \in 1..Len(gets) : gets[i].arg = <<ks[p][i]>>
                   /\ SubSeq(log[p], 1, Len(gets)) = gets
                   /\ ~Fetched(p)
                        => /\ nOut <= nHit
                           /\ out[p] = SubSeq(hits, 1, nOut)
                           /\ nOut < nHit => (nOut = nHit - 1 /\ cur[p] = hits[nHit])
                   /\ Fetched(p)
                        => /\ Len(gets) = Len(ks[p])
                           /\ nOut >= nHit
                           /\ SubSeq(out[p], 1, nHit) = hits
                           /\ \A i \in (nHit + 1)..nOut : out[p][i] \in owed

\* of three distinct cids the first was missed and the other two were found: the
\* two hits were sent in their order, and the first cid, which the exchange
\* delivered, was sent after them
C14_Witness ==
    \E p \in Procs :
        /\ pc[p] = "done"
        /\ call[p].op = "GetBlocks"
        /\ Len(ks[p]) = 3
        /\ Distinct(ks[p])
        /\ HitSeq(p) = <<ks[p][2], ks[p][3]>>
        /\ out[p] = <<ks[p][2], ks[p][3], ks[p][1]>>
        /\ Count(log[p], "GetBlocks") = 1

\* the cids whose lookup failed, not-found or otherwise, in the order of the lookups
MissSeq(p) ==
    LET failed == SelectSeq(Gets(p), LAMBDA e : e.res # "ok")
    IN  [i \in 1..Len(failed) |-> failed[i].arg[1]]

\* C15: in a GetBlocks call every lookup that fails, not-found or any other error,
\* puts its cid on the miss list and the scan goes on: the call ends before
\* fetch.GetBlocks only once every cid is looked up (with no miss or no
\* fetcher), or cancelled while sending a hit. fetch.GetBlocks is called at most
\* once, with the miss list as it stands after the scan, which is not empty, on
\* a fetcher that is not nil.
C15_MissesFetchedOnce ==
    \A p \in Procs :
        call[p].op = "GetBlocks"
            => /\ misses[p] = MissSeq(p)
               /\ Cardinality(CallsOf(p, "GetBlocks")) <= 1
               /\ \A i \in 1..Len(log[p]) :
                    log[p][i].op = "GetBlocks"
                      => /\ log[p][i].arg = misses[p]
                         /\ misses[p] # <<>>
                         /\ fetch[p] \in {"exchange", "session"}
                         /\ Len(Gets(p)) = Len(ks[p])
               /\ (pc[p] = "done" /\ ~Fetched(p))
                    => \/ /\ ret[p].err = "local"
                          /\ Len(Gets(p)) = Len(ks[p])
                          /\ misses[p] = <<>> \/ fetch[p] = "nil"
                       \/ /\ ret[p].err = "cancelled"
                          /\ cancelled[p]
                          /\ Gets(p)[Len(Gets(p))].res = "ok"

\* of three cids the first lookup failed with an error, the second hit and the
\* third ended not-found: the first and the third cid were fetched in one call
C15_Witness ==
    \E p \in Procs :
        /\ call[p].op = "GetBlocks"
        /\ Len(ks[p]) = 3
        /\ Len(Gets(p)) = 3
        /\ Gets(p)[1].res = "err"
        /\ Gets(p)[2].res = "ok"
        /\ Gets(p)[3].res = "NotFound"
        /\ Count(log[p], "GetBlocks") = 1
        /\ log[p][Len(log[p])] = Ev("GetBlocks", <<ks[p][1], ks[p][3]>>, "ok")

\* the calls of the network phase of getBlocks, and the blocks sent on out after
\* the local hits
WriteBackOps == {"Put", "NotifyNewBlocks", "Provide"}
NetOut(p) == SubSeq(out[p], Len(HitSeq(p)) + 1, Len(out[p]))
WhyOf(op) == IF op = "Put" THEN "StoreErr"
             ELSE IF op = "NotifyNewBlocks" THEN "NotifyErr" ELSE "ProvideErr"

\* C16: in a GetBlocks call, as soon as a Put, a NotifyNewBlocks or a Provide of the
\* network phase fails the goroutine has returned: the failed call is the last
\* call made, it was made for the block just received, that block is not sent
\* (the blocks sent after the local hits are one fewer than the blocks put),
\* out is closed once and carries blocks only, and what was sent before is
\* still there.
C16_WriteBackFailureEnds ==
    \A p \in Procs :
        call[p].op = "GetBlocks"
            => /\ \A i \in 1..Len(out[p]) : out[p][i] \in Cids
               /\ \A i \in 1..Len(log[p]) :
                    (log[p][i].res = "err" /\ log[p][i].op \in WriteBackOps)
                      => LET hits == HitSeq(p)
                             net == NetOut(p)
                         IN  /\ i = Len(log[p])
                             /\ pc[p] = "done"
                             /\ closes[p] = 1
                             /\ ret[p].err = WhyOf(log[p][i].op)
                             /\ log[p][i].arg = <<cur[p]>>
                             /\ Len(net) = Cardinality(CallsOf(p, "Put")) - 1
                             /\ SubSeq(out[p], 1, Len(hits)) = hits
                             /\ \A j \in 1..Len(net) :
                                  /\ net[j] # cur[p]
                                  /\ \E k \in 1..(i - 1) : log[p][k] = Ev("Put", <<net[j]>>, "ok")

\* a GetBlocks call that had sent one block from the exchange ended on the failed
\* Provide of the next one, with a third block still owed by the exchange
C16_Witness ==
    \E p \in Procs :
        /\ pc[p] = "done"
        /\ call[p].op = "GetBlocks"
        /\ ret[p].err = "ProvideErr"
        /\ exchange # "nil"
        /\ Len(NetOut(p)) = 1
        /\ Count(log[p], "Put") = 2
        /\ log[p][Len(log[p])] = Ev("Provide", <<cur[p]>>, "err")
        /\ pending[p] # {}
        /\ closes[p] = 1

\* the calls a read makes for a block b it got from the exchange when all succeed
WriteBackOk(b) ==
    <<Ev("Put", <<b>>, "ok")>>
      \o (IF exchange # "nil" THEN <<Ev("NotifyNewBlocks", <<b>>, "ok")>> ELSE <<>>)
      \o (IF provider THEN <<Ev("Provide", <<b>>, "ok")>> ELSE <<>>)
\* the cids for which a call has made the call op with success
DoneOk(p, op) == {c \in Cids : \E i \in 1..Len(log[p]) : log[p][i] = Ev(op, <<c>>, "ok")}
\* the blocks from the exchange a read has handed to its caller
HandedOver(p) ==
    IF call[p].op = "GetBlocks" THEN SeqToSet(NetOut(p))
    ELSE IF call[p].op = "GetBlock" /\ pc[p] = "done" /\ ret[p].err = "nil"
            /\ Count(log[p], "GetBlock") > 0
    THEN {ret[p].blk}
    ELSE {}

\* C17: in GetBlock and in GetBlocks, a block that came from the exchange is returned
\* or sent on out only after its Put, then its NotifyNewBlocks (an exchange being
\* set, as it is whenever a block was fetched), then its Provide (a provider
\* being set) were made one after the other and succeeded; so at every moment
\* the blocks handed over are among the provided ones, these among the notified
\* ones, these among the put ones, all of which the blockstore holds.
C17_HandedOverAfterWriteBack ==
    \A p \in Procs :
        call[p].op \in {"GetBlock", "GetBlocks"}
            => /\ \A b \in HandedOver(p) :
                    \E k \in 1..Len(log[p]) :
                        /\ k + Len(WriteBackOk(b)) - 1 <= Len(log[p])
                        /\ SubSeq(log[p], k, k + Len(WriteBackOk(b)) - 1) = WriteBackOk(b)
                        /\ k > 1
                        /\ log[p][k - 1].op \in {"GetBlock", "GetBlocks", "Provide",
                                                 "NotifyNewBlocks", "Put"}
               /\ HandedOver(p) # {} => exchange # "nil"
               /\ provider => /\ HandedOver(p) \subseteq DoneOk(p, "Provide")
                              /\ DoneOk(p, "Provide") \subseteq DoneOk(p, "NotifyNewBlocks")
               /\ HandedOver(p) \subseteq DoneOk(p, "NotifyNewBlocks")
               /\ DoneOk(p, "NotifyNewBlocks") \subseteq DoneOk(p, "Put")
               /\ DoneOk(p, "Put") \subseteq store

\* a GetBlocks call with a provider set has sent one block of the exchange and ended
\* on a failed NotifyNewBlocks of a second one: one block handed over, provided
\* and notified, two blocks put
C17_Witness ==
    \E p \in Procs :
        /\ pc[p] = "done"
        /\ call[p].op = "GetBlocks"
        /\ provider
        /\ ret[p].err = "NotifyErr"
        /\ Cardinality(HandedOver(p)) = 1
        /\ DoneOk(p, "Provide") = HandedOver(p)
        /\ DoneOk(p, "NotifyNewBlocks") = HandedOver(p)
        /\ Cardinality(DoneOk(p, "Put")) = 2

\* the position of the Put or PutMany in the log of an AddBlock or AddBlocks call
\* (0: none was made), and the calls made after it
PutAt(p) ==
    LET at == {i \in 1..Len(log[p]) : log[p][i].op \in {"Put", "PutMany"}}
    IN  IF at = {} THEN 0 ELSE CHOOSE i \in at : \A j \in at : i <= j
AfterPut(p) == SubSeq(log[p], PutAt(p) + 1, Len(log[p]))

\* C18: a finished AddBlock or AddBlocks call whose Put / PutMany succeeded has
\* returned nil, and after the write it has made NotifyNewBlocks for the written
\* blocks when an exchange is set and then, when a provider is set, one Provide
\* for each written block in order, whichever of these calls failed; one whose
\* Put / PutMany failed has returned that error and made no call after it.
C18_WriteDecidesResult ==
    \A p \in Procs :
        (pc[p] = "done" /\ call[p].op \in {"AddBlock", "AddBlocks"} /\ PutAt(p) > 0)
            => LET put == log[p][PutAt(p)]
                   after == AfterPut(p)
                   nNot == IF exchange # "nil" THEN 1 ELSE 0
                   nPro == IF provider THEN Len(put.arg) ELSE 0
               IN  /\ put.res = "err"
                        => /\ ret[p].err = "StoreErr"
                           /\ after = <<>>
                   /\ put.res = "ok"
                        => /\ ret[p].err = "nil"
                           /\ SeqToSet(put.arg) \subseteq store
                           /\ Len(after) = nNot + nPro
                           /\ nNot = 1 => /\ after[1].op = "NotifyNewBlocks"
                                          /\ after[1].arg = put.arg
                           /\ \A i \in 1..nPro :
                                /\ after[nNot + i].op = "Provide"
                                /\ after[nNot + i].arg = <<put.arg[i]>>

\* an AddBlocks call wrote two blocks; its NotifyNewBlocks failed, the Provide of
\* the first block failed, the second block was provided and the call returned nil
C18_Witness ==
    \E p \in Procs :
        /\ pc[p] = "done"
        /\ call[p].op = "AddBlocks"
        /\ PutAt(p) > 0
        /\ Len(log[p][PutAt(p)].arg) = 2
        /\ AfterPut(p) = << Ev("NotifyNewBlocks", call[p].arg, "err"),
                            Ev("Provide", <<call[p].arg[1]>>, "err"),
                            Ev("Provide", <<call[p].arg[2]>>, "ok") >>
        /\ ret[p].err = "nil"

\* what grabSession leaves in Session.ses for each kind of exchange
SesFor(ex) == IF ex = "nil" THEN "nil" ELSE IF ex = "session" THEN "session" ELSE "exchange"

\* C19: once the initialisation of the Session has completed, the Session no longer
\* holds sesctx and holds the fetcher of its case (nil without exchange, the
\* exchange itself when it has no sessions, else the one session constructed);
\* from then on no step changes the Once, ses, sesctx or the number of sessions
\* constructed, and every call that gets its fetcher from the Session gets ses.
C19_ReadyIsFinal ==
    /\ [](once = "done"
            => /\ sesctx = "nil"
               /\ ses = SesFor(exchange)
               /\ nsess = (IF exchange = "session" THEN 1 ELSE 0)
               /\ \A p \in Procs :
                    (call[p].via = "session" /\ fetch[p] # "unset") => fetch[p] = ses)
    /\ [][once = "done" => UNCHANGED <<once, ses, sesctx, nsess, exchange>>]_vars

\* on a service whose exchange has no sessions, a call on the Session has ended
\* and a later one holds the same fetcher, the exchange itself
C19_Witness ==
    \E p, q \in Procs :
        /\ p # q
        /\ exchange = "plain"
        /\ once = "done"
        /\ sesctx = "nil"
        /\ pc[p] = "done"
        /\ call[p].via = "session"
        /\ fetch[p] = "exchange"
        /\ pc[q] = "fetch"
        /\ fetch[q] = "exchange"
        /\ nsess = 0

\* C20, as claimed: once a GetBlock call on the Session has returned a block, or the
\* goroutine of a GetBlocks call on it has ended, the initialisation of the
\* Session has completed.
C20_ReadyAfterAnyCall ==
    \A p \in Procs :
        ( /\ call[p].via = "session"
          /\ pc[p] = "done"
          /\ call[p].op = "GetBlock" => ret[p].err = "nil" )
            => once = "done"

\* C20, amended: the initialisation is run by the first call on the Session that
\* asks it for its fetcher, which a GetBlock call does exactly when its lookup
\* ended not-found. Once a call that asked has ended the initialisation has
\* completed, having run once: the call holds what the Session holds, sesctx is
\* dropped, and NewSession was called once if the exchange has sessions and
\* never otherwise.
C20_ReadyAfterFetcherAsked ==
    \A p \in Procs :
        (call[p].via = "session" /\ pc[p] = "done")
            => /\ call[p].op = "GetBlock"
                    => (fetch[p] # "unset" <=> (log[p] # <<>> /\ log[p][1].res = "NotFound"))
               /\ fetch[p] # "unset"
                    => /\ once = "done"
                       /\ fetch[p] = SesFor(exchange)
                       /\ ses = fetch[p]
                       /\ sesctx = "nil"
                       /\ nsess = (IF exchange = "session" THEN 1 ELSE 0)

\* the only call made on the Session so far, a GetBlocks call that missed its cid
\* and fetched it through the Session until the exchange closed rblocks, has
\* ended: the Session is initialised and holds the session constructed for it
C20_Witness ==
    \E p \in Procs :
        /\ pc[p] = "done"
        /\ call[p].op = "GetBlocks"
        /\ call[p].via = "session"
        /\ misses[p] # <<>>
        /\ ret[p].err = "closed"
        /\ fetch[p] = "session"
        /\ once = "done"
        /\ sesctx = "nil"
        /\ nsess = 1
        /\ \A q \in Procs : q # p => call[q].op = "none"

====
